---- MODULE Spec2Model ----
(***************************************************************************)
(* Model of the authentication / session scripts of the Dahua VTO examples *)
(* (examples/python/get_id.py and examples/python/_session_util.py).       *)
(*                                                                         *)
(* Strings are sequences of one-character tokens.  The token " " stands    *)
(* for whitespace inside a line, "\n" for a line feed and "BAD" for a byte *)
(* sequence that is not valid UTF-8.  A hex digest is the token sequence   *)
(* "md5(" ++ input ++ ")"; its upper-case form starts with "MD5(".         *)
(* Python values are records [t, s]: t is the type tag and s the string    *)
(* content (empty for values that are not strings).                        *)
(***************************************************************************)
EXTENDS Naturals, Sequences, FiniteSets, TLC

\* ------------------------------------------------------------------ bounds
MaxLen == 2          \* longest session id / typed line, in characters
MaxRuns == 2         \* script executions in one behaviour

\* --------------------------------------------------------- program constants
ID_STEP1 == 4
ID_STEP2 == 5

\* ------------------------------------------------------------------ strings
Chars == {"a", " "}
Whitespace == {" ", "\n"}

StrTo(n) == UNION {[1..k -> Chars] : k \in 0..n}
Strings == StrTo(MaxLen)

RECURSIVE lstrip(_)
lstrip(s) == IF s # <<>> /\ Head(s) \in Whitespace THEN lstrip(Tail(s)) ELSE s

RECURSIVE rstrip(_)
rstrip(s) == IF s # <<>> /\ s[Len(s)] \in Whitespace
             THEN rstrip(SubSeq(s, 1, Len(s) - 1)) ELSE s

strip(s) == rstrip(lstrip(s))

\* ------------------------------------------------------------ Python values
None == [t |-> "none", s |-> <<>>]
Absent == [t |-> "absent", s |-> <<>>]
PyTrue == [t |-> "true", s |-> <<>>]
PyFalse == [t |-> "false", s |-> <<>>]
PyInt == [t |-> "int", s |-> <<>>]
NotDict == [t |-> "notdict", s |-> <<>>]
Str(x) == [t |-> "str", s |-> x]

IsStr(v) == v.t = "str"
Truthy(v) == v.t \in {"true", "int", "dict"} \/ (v.t = "str" /\ v.s # <<>>)

\* dict.get(key): the value, or None when the key is absent
Get(v) == IF v = Absent THEN None ELSE v

\* -------------------------------------------------------------------- files
\* A file is absent, or holds data.  The session file's data is a string; the
\* credentials file's data is a sequence of lines [kind, k, v] standing for
\* the text k=v (kind "kv"), a # comment, a blank line or a line without "=".
NoFile == [exists |-> FALSE, data |-> <<>>]
File(d) == [exists |-> TRUE, data |-> d]

Keys == {"ip", "username", "password"}
KV(k, v) == [kind |-> "kv", k |-> k, v |-> v]
Comment == [kind |-> "comment", k |-> "#", v |-> <<>>]

\* str.lower() on the key spellings that occur in the modelled files
lower(k) == CASE k = "IP" -> "ip"
              [] k = "Username" -> "username"
              [] k = "PASSWORD" -> "password"
              [] OTHER -> k

\* _parse_kv_file: the dict of the file's key=value lines, keys case-folded,
\* values trimmed, a later line overriding an earlier one; comment and blank
\* lines and lines without "=" are skipped.
RECURSIVE LastValue(_, _)
LastValue(lines, key) ==
    IF lines = <<>> THEN Absent
    ELSE LET l == lines[Len(lines)]
         IN IF l.kind = "kv" /\ lower(l.k) = key
            THEN Str(strip(l.v))
            ELSE LastValue(SubSeq(lines, 1, Len(lines) - 1), key)

_parse_kv_file(lines) == [k \in Keys |-> LastValue(lines, k)]

\* _save_credentials: the four lines written, in order
CredentialLines(c) ==
    << Comment, KV("ip", c["ip"].s), KV("username", c["username"].s),
       KV("password", c["password"].s) >>

\* _read_session_from_file without the .strip() of line 12
_read_session_from_file_NoStrip(file, io) ==
    IF ~file.exists
    THEN [val |-> None, warn |-> FALSE, exc |-> ""]
    ELSE IF io = "oserror"
    THEN [val |-> None, warn |-> TRUE, exc |-> ""]
    ELSE IF \E i \in 1..Len(file.data) : file.data[i] = "BAD"
    THEN [val |-> None, warn |-> FALSE, exc |-> "UnicodeDecodeError"]
    ELSE [val |-> IF file.data = <<>> THEN None ELSE Str(file.data),
          warn |-> FALSE, exc |-> ""]

\* _read_session_from_file: [val, warn, exc].  io is the outcome of open().
_read_session_from_file(file, io) ==
    IF ~file.exists
    THEN [val |-> None, warn |-> FALSE, exc |-> ""]
    ELSE IF io = "oserror"
    THEN [val |-> None, warn |-> TRUE, exc |-> ""]
    ELSE IF \E i \in 1..Len(file.data) : file.data[i] = "BAD"
    THEN [val |-> None, warn |-> FALSE, exc |-> "UnicodeDecodeError"]
    ELSE LET sid == strip(file.data)
         IN [val |-> IF sid = <<>> THEN None ELSE Str(sid),
             warn |-> FALSE, exc |-> ""]

\* What open(path, "w") followed by f.write(session_id.strip() + "\n")
\* leaves in the file: [file, wrote, exc].  io is "open_fail" (open raises
\* OSError), "write_fail" (the write raises OSError after the truncating
\* open) or "ok".  session_id.strip() raises AttributeError, after the
\* open, when session_id is not a string.
WriteSession(file, session_id, io) ==
    IF io = "open_fail"
    THEN [file |-> file, wrote |-> FALSE, exc |-> "OSError"]
    ELSE IF ~IsStr(session_id)
    THEN [file |-> File(<<>>), wrote |-> FALSE, exc |-> "AttributeError"]
    ELSE IF io = "write_fail"
    THEN [file |-> File(<<>>), wrote |-> FALSE, exc |-> "OSError"]
    ELSE [file |-> File(strip(session_id.s) \o <<"\n">>), wrote |-> TRUE,
          exc |-> ""]

\* get_id._save_session: every Exception is caught and reported as a warning
_save_session(file, session_id, io) ==
    LET w == WriteSession(file, session_id, io)
    IN [file |-> w.file, wrote |-> w.wrote, warn |-> w.exc # "", exc |-> ""]

\* _save_session_to_file without its except clause: the OSError goes on
_save_session_to_file_Fatal(file, session_id, io) ==
    LET w == WriteSession(file, session_id, io)
    IN [file |-> w.file, wrote |-> w.wrote, warn |-> FALSE, exc |-> w.exc]

\* _session_util._save_session_to_file: only OSError is caught
_save_session_to_file(file, session_id, io) ==
    LET w == WriteSession(file, session_id, io)
    IN [file |-> w.file, wrote |-> w.wrote, warn |-> w.exc = "OSError",
        exc |-> IF w.exc = "OSError" THEN "" ELSE w.exc]

\* ------------------------------------------------------------------ prompts
\* _prompt_yes_no on the answer after .strip().lower(): "yes", "no", or
\* "again" when the answer is not understood and the question is repeated.
\* ru_d, ru_da, ru_n, ru_net stand for the Cyrillic answers.
Answers == {"", "y", "yes", "n", "no", "ru_d", "ru_da", "ru_n", "ru_net", "x"}

get_id_prompt_yes_no(ans, default) ==
    IF ans = "" THEN (IF default THEN "yes" ELSE "no")
    ELSE IF ans \in {"y", "yes"} THEN "yes"
    ELSE IF ans \in {"n", "no"} THEN "no"
    ELSE "again"

_prompt_yes_no(ans, default) ==
    IF ans = "" THEN (IF default THEN "yes" ELSE "no")
    ELSE IF ans \in {"y", "yes", "ru_d", "ru_da"} THEN "yes"
    ELSE IF ans \in {"n", "no", "ru_n", "ru_net"} THEN "no"
    ELSE "again"

\* ------------------------------------------------------------------- digest
md5_hexdigest(s) == <<"md5(">> \o s \o <<")">>
\* str.upper() of a hex digest
upper(s) == IF s # <<>> /\ Head(s) = "md5(" THEN <<"MD5(">> \o Tail(s) ELSE s

\* str() of a value inside an f-string
Fmt(v) == IF IsStr(v) THEN v.s ELSE <<v.t>>

\* calculate_dahua_auth_hash with the lower-case first hash in the second round
calculate_dahua_auth_hash_LowerH1(user, pwd, realm_, random_) ==
    LET s1 == user \o <<":">> \o Fmt(realm_) \o <<":">> \o pwd
        h1_lower == md5_hexdigest(s1)
        s2 == user \o <<":">> \o Fmt(random_) \o <<":">> \o h1_lower
    IN upper(md5_hexdigest(s2))

calculate_dahua_auth_hash(user, pwd, realm_, random_) ==
    LET s1 == user \o <<":">> \o Fmt(realm_) \o <<":">> \o pwd
        h1_upper == upper(md5_hexdigest(s1))
        s2 == user \o <<":">> \o Fmt(random_) \o <<":">> \o h1_upper
    IN upper(md5_hexdigest(s2))

\* ---------------------------------------------------------------- RPC model
\* A request body sent to http://<ip>/RPC2_Login.
Request(ip_, user, pwd, id_, session_) ==
    [url |-> ip_, method |-> "global.login", userName |-> user,
     password |-> pwd, id |-> id_, session |-> session_]

payload_step1(ip_, user) == Request(ip_, user, <<>>, ID_STEP1, Absent)

\* payload_step2 without the session of the challenge
payload_step2_NoSession(ip_, user, pwd, realm_, random_, temp) ==
    Request(ip_, user, calculate_dahua_auth_hash(user, pwd, realm_, random_),
            ID_STEP2, Absent)

\* payload_step2 with the password itself in place of the digest
payload_step2_Plaintext(ip_, user, pwd, realm_, random_, temp) ==
    Request(ip_, user, pwd, ID_STEP2, temp)

payload_step2(ip_, user, pwd, realm_, random_, temp) ==
    Request(ip_, user, calculate_dahua_auth_hash(user, pwd, realm_, random_),
            ID_STEP2, temp)

\* What requests.post(...), raise_for_status() and r.json() give: kind is
\* "neterr" (RequestException), "notjson" (JSONDecodeError), "nonobject" (a
\* JSON value that is not an object) or "object"; params is "absent",
\* "notdict" or "dict", and realm, random, psession are the entries of the
\* params object.
Response(kind, result, session_, params, realm_, random_, psession) ==
    [kind |-> kind, result |-> result, session |-> session_, params |-> params,
     realm |-> realm_, random |-> random_, psession |-> psession]

NoResponse == Response("none", Absent, Absent, "absent", Absent, Absent, Absent)
Failure(kind) == Response(kind, Absent, Absent, "absent", Absent, Absent, Absent)
Failures == {Failure("neterr"), Failure("notjson"), Failure("nonobject")}

FalsyResults == {Absent, PyFalse}
Nonces == {Absent, Str(<<>>), Str(<<"a">>), Str(<<"b">>)}
TempSessions == {Absent, Str(<<>>), Str(<<"a">>)}

\* Challenge responses: the three failures, every object with a true result,
\* and objects with a falsy result around an otherwise complete challenge.
Responses1 ==
    Failures
    \cup {Response("object", PyTrue, t, "dict", rl, rn, Absent) :
            t \in TempSessions, rl \in Nonces, rn \in Nonces}
    \cup {Response("object", PyTrue, t, pk, Absent, Absent, Absent) :
            t \in TempSessions, pk \in {"absent", "notdict"}}
    \cup {Response("object", r, Str(<<"a">>), pk, Str(<<"a">>), Str(<<"a">>), Absent) :
            r \in FalsyResults, pk \in {"absent", "dict"}}

SessionIds == {Absent, PyInt} \cup {Str(x) : x \in Strings}
NestedIds == {Absent, PyInt} \cup {Str(x) : x \in StrTo(MaxLen - 1)}

\* Login responses: the three failures, every object with a true result, and
\* objects with a falsy result with and without a session id.
Responses2 ==
    Failures
    \cup {Response("object", PyTrue, t, "dict", Absent, Absent, n) :
            t \in SessionIds, n \in NestedIds}
    \cup {Response("object", PyTrue, t, pk, Absent, Absent, Absent) :
            t \in SessionIds, pk \in {"absent", "notdict"}}
    \cup {Response("object", r, t, "absent", Absent, Absent, Absent) :
            r \in FalsyResults, t \in {Absent, Str(<<"a">>)}}
    \cup {Response("object", r, Absent, "dict", Absent, Absent, Str(<<"a">>)) :
            r \in FalsyResults}

\* Step1Outcome without the check of line 178: the handshake goes on with
\* whatever the challenge holds.
Step1Outcome_NoFieldCheck(resp) ==
    LET stop(o) == [out |-> o, realm |-> None, random_key |-> None,
                    temp_session |-> None]
    IN IF resp.kind \in {"neterr", "notjson"} THEN stop("none")
       ELSE IF resp.kind = "nonobject" THEN stop("AttributeError")
       ELSE IF ~Truthy(Get(resp.result)) \/ resp.params = "absent"
       THEN stop("none")
       ELSE IF resp.params = "notdict" THEN stop("AttributeError")
       ELSE [out |-> "proceed", realm |-> Get(resp.realm),
             random_key |-> Get(resp.random),
             temp_session |-> Get(resp.session)]

\* Lines 156-180 of login_and_get_session: what the challenge response leads
\* to.  [out, realm, random_key, temp_session] with out "proceed", "none"
\* (return None) or "AttributeError" (an exception nothing catches).
Step1Outcome(resp) ==
    LET stop(o) == [out |-> o, realm |-> None, random_key |-> None,
                    temp_session |-> None]
    IN IF resp.kind \in {"neterr", "notjson"} THEN stop("none")
       ELSE IF resp.kind = "nonobject" THEN stop("AttributeError")
       ELSE IF ~Truthy(Get(resp.result)) \/ resp.params = "absent"
       THEN stop("none")
       ELSE IF resp.params = "notdict" THEN stop("AttributeError")
       ELSE IF ~(Truthy(Get(resp.realm)) /\ Truthy(Get(resp.random))
                 /\ Truthy(Get(resp.session)))
       THEN stop("none")
       ELSE [out |-> "proceed", realm |-> Get(resp.realm),
             random_key |-> Get(resp.random),
             temp_session |-> Get(resp.session)]

\* The lookup of line 220 in the other order: params.session first
SessionIdOf_NestedFirst(resp) ==
    IF resp.params = "notdict" THEN [val |-> None, exc |-> "AttributeError"]
    ELSE IF resp.params = "dict" /\ Truthy(Get(resp.psession))
    THEN [val |-> Get(resp.psession), exc |-> ""]
    ELSE [val |-> Get(resp.session), exc |-> ""]

\* Line 220: resp2.get("session") or resp2.get("params", {}).get("session").
\* [val, exc]
SessionIdOf(resp) ==
    IF Truthy(Get(resp.session)) THEN [val |-> Get(resp.session), exc |-> ""]
    ELSE IF resp.params = "absent" THEN [val |-> None, exc |-> ""]
    ELSE IF resp.params = "notdict" THEN [val |-> None, exc |-> "AttributeError"]
    ELSE [val |-> Get(resp.psession), exc |-> ""]

\* Step2Outcome without the test of line 219: a session id found in the
\* response is saved and returned whatever the result flag says.
Step2Outcome_NoResultCheck(resp) ==
    IF resp.kind \in {"neterr", "notjson"}
    THEN [out |-> "return", session_id |-> None, save |-> FALSE]
    ELSE IF resp.kind = "nonobject"
    THEN [out |-> "AttributeError", session_id |-> None, save |-> FALSE]
    ELSE IF SessionIdOf(resp).exc # ""
    THEN [out |-> SessionIdOf(resp).exc, session_id |-> None, save |-> FALSE]
    ELSE [out |-> "return", session_id |-> SessionIdOf(resp).val, save |-> TRUE]

\* Lines 205-226: [out, session_id, save] with out "return" or
\* "AttributeError", and save telling whether _save_session is called.
Step2Outcome(resp) ==
    IF resp.kind \in {"neterr", "notjson"}
    THEN [out |-> "return", session_id |-> None, save |-> FALSE]
    ELSE IF resp.kind = "nonobject"
    THEN [out |-> "AttributeError", session_id |-> None, save |-> FALSE]
    ELSE IF ~Truthy(Get(resp.result))
    THEN [out |-> "return", session_id |-> None, save |-> FALSE]
    ELSE IF SessionIdOf(resp).exc # ""
    THEN [out |-> SessionIdOf(resp).exc, session_id |-> None, save |-> FALSE]
    ELSE [out |-> "return", session_id |-> SessionIdOf(resp).val, save |-> TRUE]

\* -------------------------------------------------------------- credentials
NoCreds == [k \in Keys |-> Absent]

\* dict.get(key, "")
GetStr(v) == IF v = Absent THEN <<>> ELSE v.s

\* The test of line 113 without the password key
Complete_NoPassword(parsed) == parsed["ip"] # Absent /\ parsed["username"] # Absent

\* line 113: all(k in parsed for k in ("ip", "username", "password"))
Complete(parsed) == \A k \in Keys : parsed[k] # Absent

\* _prompt_credentials: the dict built from the three typed lines
_prompt_credentials(existing, ipIn, userIn, pwdIn) ==
    LET ip_default == GetStr(existing["ip"])
        user_default == GetStr(existing["username"])
        ip_ == IF strip(ipIn) # <<>> THEN strip(ipIn) ELSE ip_default
        user == IF strip(userIn) # <<>> THEN strip(userIn) ELSE user_default
        pwd == IF Truthy(Get(existing["password"])) /\ strip(pwdIn) = <<>>
               THEN existing["password"].s
               ELSE pwdIn
    IN [k \in Keys |-> CASE k = "ip" -> Str(ip_)
                         [] k = "username" -> Str(user)
                         [] OTHER -> Str(pwd)]

\* The test of line 236 without its password part
MissingInput_NoPassword(ip_, user, pwd) == ip_ = <<>> \/ user = <<>>

\* lines 236-238: not ip or not username or not password
MissingInput(ip_, user, pwd) == ip_ = <<>> \/ user = <<>> \/ pwd = <<>>

\* Credentials files the model starts from: any subset of the three keys,
\* each with an empty value or the value b, and two files that exercise the
\* parser (comment, upper-case key, padded value, overridden line).
FileValues == {<<>>, <<"b">>}
PlainFiles ==
    {File(<<KV("ip", i), KV("username", u), KV("password", p)>>) :
        i \in FileValues, u \in FileValues, p \in FileValues}
    \cup {File(<<KV("ip", i), KV("username", u)>>) : i \in FileValues, u \in FileValues}
    \cup {File(<<KV("ip", i), KV("password", p)>>) : i \in FileValues, p \in FileValues}
    \cup {File(<<KV("username", u), KV("password", p)>>) : u \in FileValues, p \in FileValues}
    \cup {File(<<KV("password", <<"b">>)>>), File(<<>>)}
OddFiles ==
    {File(<<Comment, KV("IP", <<" ", "b">>), KV("Username", <<"b", " ">>),
            KV("password", <<>>), KV("PASSWORD", <<"b">>)>>),
     File(<<[kind |-> "junk", k |-> "ip", v |-> <<>>], KV("username", <<"b">>),
            KV("password", <<"b">>)>>)}
CredentialFiles == {NoFile} \cup PlainFiles \cup OddFiles

IpLines == {<<>>, <<"a">>, <<" ", "a">>}
UserLines == {<<>>, <<"a">>}
PasswordLines == {<<>>, <<"a">>, <<" ">>}

\* Session files the model starts from
SessionFiles == {NoFile, File(<<>>), File(<<"b", "\n">>), File(<<" ", "b", " ", "\n">>),
                 File(<<"BAD">>)}
LoginSessionFiles == {NoFile, File(<<"b", "\n">>)}

\* -------------------------------------------------------------------- state
VARIABLES
    script,          \* "get_id", "_session_util" (run as a script) or "import"
    runs,            \* script executions so far
    pc,              \* position of the running script
    credFile,        \* credentials.txt
    sessFile,        \* session.txt
    sessFile0,       \* session.txt when the running script started
    asked,           \* the prompts shown by the running script
    warnings,        \* the session-file warnings printed by the running script
    creds_from_file, \* _get_credentials_interactive: parsed, then creds_from_file;
                     \* reset when the function returns
    creds,           \* __main__: creds
    ip, username, password,
    sent,            \* the requests posted, in order
    resp1, realm, random_key, temp_session,
    resp2,
    interactive,     \* ensure_session: interactive
    existing,        \* ensure_session: existing
    ret,             \* what login_and_get_session / ensure_session returned
    raised,          \* the exception that left the function, "" if none
    exitCode,        \* the process exit status, once pc = "exit"
    lastSave,        \* the last save of a session id: the id passed, whether
                     \* it was written, and the execution that saved it
    race             \* two more processes inside _save_session on the same
                     \* session.txt: where each is, its session id, and who
                     \* wrote last

vars == << script, runs, pc, credFile, sessFile, sessFile0, asked, warnings,
           creds_from_file, creds, ip, username, password, sent, resp1, realm,
           random_key, temp_session, resp2, interactive, existing, ret,
           raised, exitCode, lastSave, race >>

files == << credFile, sessFile >>
credLocals == << creds_from_file, creds, ip, username, password >>
loginLocals == << sent, resp1, realm, random_key, temp_session, resp2 >>
ensureLocals == << interactive, existing >>

NoRet == [t |-> "noret", s |-> <<>>]
NoSave == [arg |-> NoRet, wrote |-> FALSE, run |-> 0]

\* No other process touches session.txt
NoRace == [at |-> <<"none", "none">>, session_id |-> << <<>>, <<>> >>, last |-> 0]

StartPc(sc) == IF sc = "get_id" THEN "get_id_start" ELSE "ensure_start"

\* The locals of a fresh process
Fresh ==
    /\ asked = {} /\ warnings = {}
    /\ creds_from_file = NoCreds /\ creds = NoCreds
    /\ ip = <<>> /\ username = <<>> /\ password = <<>>
    /\ sent = <<>> /\ resp1 = NoResponse /\ resp2 = NoResponse
    /\ realm = None /\ random_key = None /\ temp_session = None
    /\ existing = NoRet /\ ret = NoRet /\ raised = "" /\ exitCode = 0

Init ==
    /\ script \in {"get_id", "_session_util", "import"}
    /\ runs = 1
    /\ pc = StartPc(script)
    /\ credFile \in (IF script = "get_id" THEN CredentialFiles ELSE {NoFile})
    /\ sessFile \in (IF script = "get_id" THEN LoginSessionFiles ELSE SessionFiles)
    /\ sessFile0 = sessFile
    /\ interactive \in (IF script = "import" THEN BOOLEAN ELSE {TRUE})
    /\ lastSave = NoSave
    /\ race = NoRace
    /\ Fresh

\* An exception nothing catches: traceback, exit status 1
Crash(exc) == /\ raised' = exc /\ pc' = "exit" /\ exitCode' = 1

\* ---------------------------------------------------------- get_id.py steps
\* _get_credentials_interactive, lines 108-123, up to the yes/no question
GetCredentialsLoad(io) ==
    /\ pc = "get_id_start"
    /\ LET parsed == _parse_kv_file(credFile.data)
       IN IF ~credFile.exists
          THEN /\ pc' = "creds_prompt"
               /\ UNCHANGED creds_from_file
          ELSE IF io = "fail"
          THEN /\ pc' = "creds_prompt"
               /\ UNCHANGED creds_from_file
          ELSE /\ creds_from_file' = parsed
               /\ pc' = IF Complete(parsed) THEN "creds_ask" ELSE "creds_prompt"
    /\ UNCHANGED << race, script, runs, files, sessFile0, asked, warnings, creds, ip, username,
                    password, loginLocals, ensureLocals, ret, raised, exitCode,
                    lastSave >>

\* lines 114-118: "Use credentials from file?"
GetCredentialsAsk(ans) ==
    /\ pc = "creds_ask"
    /\ asked' = asked \cup {"use_file"}
    /\ LET a == get_id_prompt_yes_no(ans, TRUE)
       IN /\ pc' = CASE a = "yes" -> "main_check"
                     [] a = "no" -> "creds_prompt"
                     [] OTHER -> pc
          /\ creds' = IF a = "yes" THEN creds_from_file ELSE creds
          /\ creds_from_file' = IF a = "yes" THEN NoCreds ELSE creds_from_file
    /\ UNCHANGED << race, script, runs, files, sessFile0, warnings,
                    ip, username, password, loginLocals, ensureLocals, ret,
                    raised, exitCode, lastSave >>

\* lines 125-129: _prompt_credentials, then _save_credentials
GetCredentialsPrompt(ipIn, userIn, pwdIn, io) ==
    /\ pc = "creds_prompt"
    /\ asked' = asked \cup {"ip", "username", "password"}
    /\ LET c == _prompt_credentials(creds_from_file, ipIn, userIn, pwdIn)
       IN IF io = "ok"
          THEN /\ credFile' = File(CredentialLines(c))
               /\ creds' = c
               /\ pc' = "main_check"
               /\ UNCHANGED << raised, exitCode >>
          ELSE /\ credFile' = IF io = "open_fail" THEN credFile ELSE File(<<>>)
               /\ Crash("OSError")
               /\ UNCHANGED creds
    /\ creds_from_file' = NoCreds
    /\ UNCHANGED << race, script, runs, sessFile, sessFile0, warnings,
                    ip, username, password, loginLocals, ensureLocals, ret,
                    lastSave >>

\* __main__, lines 232-238
GetIdMainCheck ==
    /\ pc = "main_check"
    /\ ip' = strip(GetStr(creds["ip"]))
    /\ username' = strip(GetStr(creds["username"]))
    /\ password' = GetStr(creds["password"])
    /\ IF MissingInput(ip', username', password')
       THEN /\ pc' = "exit" /\ exitCode' = 1
       ELSE /\ pc' = "login" /\ UNCHANGED exitCode
    /\ UNCHANGED << race, script, runs, files, sessFile0, asked, warnings,
                    creds_from_file, creds, loginLocals, ensureLocals, ret,
                    raised, lastSave >>

\* login_and_get_session, line 157: the challenge request is posted
LoginStep1Send ==
    /\ pc = "login"
    /\ sent' = Append(sent, payload_step1(ip, username))
    /\ pc' = "wait1"
    /\ UNCHANGED << race, script, runs, files, sessFile0, asked, warnings, credLocals,
                    resp1, realm, random_key, temp_session, resp2, ensureLocals,
                    ret, raised, exitCode, lastSave >>

\* LoginStep1Recv with a retry: after a network error the challenge request
\* is posted again.
LoginStep1Recv_Retry(resp) ==
    /\ pc = "wait1"
    /\ resp1' = resp
    /\ LET o == Step1Outcome(resp)
       IN /\ realm' = o.realm
          /\ random_key' = o.random_key
          /\ temp_session' = o.temp_session
          /\ CASE o.out = "proceed" ->
                    /\ pc' = "challenge"
                    /\ UNCHANGED << ret, raised, exitCode >>
               [] o.out = "none" ->
                    /\ pc' = IF resp.kind = "neterr" THEN "login" ELSE "login_returned"
                    /\ ret' = IF resp.kind = "neterr" THEN ret ELSE None
                    /\ UNCHANGED << raised, exitCode >>
               [] OTHER -> Crash(o.out) /\ UNCHANGED ret
    /\ UNCHANGED << race, script, runs, files, sessFile0, asked, warnings, credLocals,
                    sent, resp2, ensureLocals, lastSave >>

\* lines 157-180: the challenge response is received and validated
LoginStep1Recv(resp) ==
    /\ pc = "wait1"
    /\ resp1' = resp
    /\ LET o == Step1Outcome(resp)
       IN /\ realm' = o.realm
          /\ random_key' = o.random_key
          /\ temp_session' = o.temp_session
          /\ CASE o.out = "proceed" ->
                    /\ pc' = "challenge"
                    /\ UNCHANGED << ret, raised, exitCode >>
               [] o.out = "none" ->
                    /\ pc' = "login_returned" /\ ret' = None
                    /\ UNCHANGED << raised, exitCode >>
               [] OTHER -> Crash(o.out) /\ UNCHANGED ret
    /\ UNCHANGED << race, script, runs, files, sessFile0, asked, warnings, credLocals,
                    sent, resp2, ensureLocals, lastSave >>

\* lines 186-206: the digest is computed and the login request is posted
LoginStep2Send ==
    /\ pc = "challenge"
    /\ sent' = Append(sent, payload_step2(ip, username, password, realm,
                                          random_key, temp_session))
    /\ pc' = "wait2"
    /\ UNCHANGED << race, script, runs, files, sessFile0, asked, warnings, credLocals,
                    resp1, realm, random_key, temp_session, resp2, ensureLocals,
                    ret, raised, exitCode, lastSave >>

\* lines 206-226: the login response is received; on a truthy result the
\* session id is saved and returned
LoginStep2Recv(resp, io) ==
    /\ pc = "wait2"
    /\ resp2' = resp
    /\ LET o == Step2Outcome(resp)
           w == _save_session(sessFile, o.session_id, io)
       IN /\ IF o.out = "return"
             THEN /\ pc' = "login_returned" /\ ret' = o.session_id
                  /\ UNCHANGED << raised, exitCode >>
             ELSE Crash(o.out) /\ UNCHANGED ret
          /\ IF o.save
             THEN /\ sessFile' = w.file
                  /\ lastSave' = [arg |-> o.session_id, wrote |-> w.wrote, run |-> runs]
                  /\ warnings' = IF w.warn THEN warnings \cup {"write_session"}
                                 ELSE warnings
             ELSE UNCHANGED << sessFile, lastSave, warnings >>
    /\ UNCHANGED << race, script, runs, credFile, sessFile0, asked, credLocals, sent,
                    resp1, realm, random_key, temp_session, ensureLocals >>

\* __main__, lines 240-242
GetIdMainExit ==
    /\ pc = "login_returned"
    /\ pc' = "exit"
    /\ exitCode' = IF ret = None THEN 2 ELSE 0
    /\ UNCHANGED << race, script, runs, files, sessFile0, asked, warnings, credLocals,
                    loginLocals, ensureLocals, ret, raised, lastSave >>

\* ---------------------------------------------------- _session_util.py steps
\* EnsureSessionLoad without the test of line 62: the user is asked even when
\* interactive is false.
EnsureSessionLoad_AlwaysAsks(io) ==
    /\ pc = "ensure_start"
    /\ LET r == _read_session_from_file(sessFile, io)
       IN /\ warnings' = IF r.warn THEN warnings \cup {"read_session"} ELSE warnings
          /\ existing' = IF r.exc # "" THEN existing ELSE r.val
          /\ IF r.exc # ""
             THEN /\ raised' = r.exc /\ pc' = "raised" /\ UNCHANGED ret
             ELSE IF Truthy(r.val)
             THEN /\ ret' = r.val /\ pc' = "returned" /\ UNCHANGED raised
             ELSE /\ pc' = "ensure_ask" /\ UNCHANGED << ret, raised >>
    /\ UNCHANGED << race, script, runs, files, sessFile0, asked, credLocals,
                    loginLocals, interactive, exitCode, lastSave >>

\* ensure_session, lines 58-63
EnsureSessionLoad(io) ==
    /\ pc = "ensure_start"
    /\ LET r == _read_session_from_file(sessFile, io)
       IN /\ warnings' = IF r.warn THEN warnings \cup {"read_session"} ELSE warnings
          /\ existing' = IF r.exc # "" THEN existing ELSE r.val
          /\ IF r.exc # ""
             THEN /\ raised' = r.exc /\ pc' = "raised" /\ UNCHANGED ret
             ELSE IF Truthy(r.val)
             THEN /\ ret' = r.val /\ pc' = "returned" /\ UNCHANGED raised
             ELSE IF ~interactive
             THEN /\ raised' = "RuntimeError: No session found"
                  /\ pc' = "raised" /\ UNCHANGED ret
             ELSE /\ pc' = "ensure_ask" /\ UNCHANGED << ret, raised >>
    /\ UNCHANGED << race, script, runs, files, sessFile0, asked, credLocals,
                    loginLocals, interactive, exitCode, lastSave >>

\* line 68: "Would you like to enter a session id manually now?"
EnsureSessionAsk(ans) ==
    /\ pc = "ensure_ask"
    /\ asked' = asked \cup {"manual"}
    /\ LET a == _prompt_yes_no(ans, TRUE)
       IN /\ pc' = CASE a = "yes" -> "ensure_enter"
                     [] a = "no" -> "raised"
                     [] OTHER -> pc
          /\ raised' = IF a = "no" THEN "RuntimeError: No session id provided"
                       ELSE raised
    /\ UNCHANGED << race, script, runs, files, sessFile0, warnings, credLocals,
                    loginLocals, ensureLocals, ret, exitCode, lastSave >>

\* EnsureSessionEnter without the test of line 70: an empty line is saved
\* and returned like any other.
EnsureSessionEnter_AcceptsEmpty(line, io) ==
    /\ pc = "ensure_enter"
    /\ asked' = asked \cup {"sid"}
    /\ LET sid == strip(line)
           w == _save_session_to_file(sessFile, Str(sid), io)
       IN /\ sessFile' = w.file
          /\ lastSave' = [arg |-> Str(sid), wrote |-> w.wrote, run |-> runs]
          /\ warnings' = IF w.warn THEN warnings \cup {"write_session"}
                         ELSE warnings
          /\ IF w.exc # ""
             THEN /\ raised' = w.exc /\ pc' = "raised" /\ UNCHANGED ret
             ELSE /\ ret' = Str(sid) /\ pc' = "returned" /\ UNCHANGED raised
    /\ UNCHANGED << race, script, runs, credFile, sessFile0, credLocals, loginLocals,
                    ensureLocals, exitCode >>

\* lines 69-73: the session id is typed, saved and returned
EnsureSessionEnter(line, io) ==
    /\ pc = "ensure_enter"
    /\ asked' = asked \cup {"sid"}
    /\ LET sid == strip(line)
           w == _save_session_to_file(sessFile, Str(sid), io)
       IN IF sid = <<>>
          THEN /\ raised' = "RuntimeError: Empty session id"
               /\ pc' = "raised"
               /\ UNCHANGED << sessFile, lastSave, warnings, ret >>
          ELSE /\ sessFile' = w.file
               /\ lastSave' = [arg |-> Str(sid), wrote |-> w.wrote, run |-> runs]
               /\ warnings' = IF w.warn THEN warnings \cup {"write_session"}
                              ELSE warnings
               /\ IF w.exc # ""
                  THEN /\ raised' = w.exc /\ pc' = "raised" /\ UNCHANGED ret
                  ELSE /\ ret' = Str(sid) /\ pc' = "returned" /\ UNCHANGED raised
    /\ UNCHANGED << race, script, runs, credFile, sessFile0, credLocals, loginLocals,
                    ensureLocals, exitCode >>

\* __main__, lines 80-87: a RuntimeError is printed, the script ends normally;
\* any other exception ends it with a traceback and status 1
SessionUtilMain ==
    /\ script = "_session_util"
    /\ pc \in {"returned", "raised"}
    /\ pc' = "exit"
    /\ exitCode' = IF pc = "raised" /\ raised = "UnicodeDecodeError" THEN 1 ELSE 0
    /\ UNCHANGED << race, script, runs, files, sessFile0, asked, warnings, credLocals,
                    loginLocals, ensureLocals, ret, raised, lastSave >>

\* ---------------------------------------------------------------- the shell
Terminated == pc = "exit" \/ (script = "import" /\ pc \in {"returned", "raised"})

\* After a script has ended, a script that needs the session is started:
\* _session_util.py itself, or one that imports ensure_session.
NextRun(sc, inter) ==
    /\ Terminated
    /\ runs < MaxRuns
    /\ runs' = runs + 1
    /\ script' = sc
    /\ interactive' = inter
    /\ pc' = StartPc(sc)
    /\ sessFile0' = sessFile
    /\ asked' = {} /\ warnings' = {}
    /\ creds_from_file' = NoCreds /\ creds' = NoCreds
    /\ ip' = <<>> /\ username' = <<>> /\ password' = <<>>
    /\ sent' = <<>> /\ resp1' = NoResponse /\ resp2' = NoResponse
    /\ realm' = None /\ random_key' = None /\ temp_session' = None
    /\ existing' = NoRet /\ ret' = NoRet /\ raised' = "" /\ exitCode' = 0
    /\ UNCHANGED << race, files, lastSave >>

IoRead == {"ok", "fail"}
IoSessionRead == {"ok", "oserror"}
IoWrite == {"ok", "open_fail", "write_fail"}

Next ==
    \/ \E io \in IoRead : GetCredentialsLoad(io)
    \/ \E ans \in Answers : GetCredentialsAsk(ans)
    \/ \E i \in IpLines, u \in UserLines, p \in PasswordLines, io \in IoWrite :
          GetCredentialsPrompt(i, u, p, io)
    \/ GetIdMainCheck
    \/ LoginStep1Send
    \/ \E resp \in Responses1 : LoginStep1Recv(resp)
    \/ LoginStep2Send
    \/ \E resp \in Responses2, io \in IoWrite : LoginStep2Recv(resp, io)
    \/ GetIdMainExit
    \/ \E io \in IoSessionRead : EnsureSessionLoad(io)
    \/ \E ans \in Answers : EnsureSessionAsk(ans)
    \/ \E line \in Strings, io \in IoWrite : EnsureSessionEnter(line, io)
    \/ SessionUtilMain
    \/ \E inter \in BOOLEAN : NextRun("import", inter)
    \/ NextRun("_session_util", TRUE)

Spec == Init /\ [][Next]_vars

(***************************************************************************)
(* Two get_id.py processes whose logins both succeeded reach line 222 at   *)
(* the same time, while a script that imports ensure_session loads the     *)
(* file.  Each process has its own file descriptor: open(path, "w")        *)
(* truncates the file and puts the descriptor at offset 0; the text is     *)
(* buffered and written with one write at that offset when the with block  *)
(* closes the file.                                                        *)
(***************************************************************************)
Procs == {1, 2}

\* A short and a long session id made of the letter ch
RaceIds(ch) == {<<ch>>, [i \in 1..(MaxLen + 1) |-> ch]}

\* A write at the end of the file, as a descriptor opened for appending does
WriteAt0_Append(data, line) == data \o line

\* A write of line at offset 0 into a file holding data: the bytes after
\* Len(line) stay
WriteAt0(data, line) == line \o SubSeq(data, Len(line) + 1, Len(data))

\* The line _save_session writes for process p
RaceLine(p) == strip(race.session_id[p]) \o <<"\n">>

RaceInit ==
    /\ script = "import" /\ runs = 1 /\ pc = "ensure_start"
    /\ interactive = FALSE
    /\ credFile = NoFile
    /\ sessFile \in {NoFile, File(<<"b", "\n">>)}
    /\ sessFile0 = sessFile
    /\ lastSave = NoSave
    /\ race \in {[at |-> <<"save", "save">>, session_id |-> <<t1, t2>>, last |-> 0] :
                    t1 \in RaceIds("a"), t2 \in RaceIds("c")}
    /\ Fresh

\* get_id.py line 133: open(path, "w")
RaceOpen(p) ==
    /\ race.at[p] = "save"
    /\ sessFile' = File(<<>>)
    /\ race' = [race EXCEPT !.at[p] = "opened"]
    /\ UNCHANGED << script, runs, pc, credFile, sessFile0, asked, warnings,
                    credLocals, loginLocals, ensureLocals, ret, raised,
                    exitCode, lastSave >>

\* get_id.py line 134 and the end of the with block
RaceWrite(p) ==
    /\ race.at[p] = "opened"
    /\ sessFile' = File(WriteAt0(sessFile.data, RaceLine(p)))
    /\ race' = [race EXCEPT !.at[p] = "done", !.last = p]
    /\ UNCHANGED << script, runs, pc, credFile, sessFile0, asked, warnings,
                    credLocals, loginLocals, ensureLocals, ret, raised,
                    exitCode, lastSave >>

RaceNext ==
    \/ \E p \in Procs : RaceOpen(p)
    \/ \E p \in Procs : RaceWrite(p)
    \/ \E io \in IoSessionRead : EnsureSessionLoad(io)

SpecRace == RaceInit /\ [][RaceNext]_vars

\* =================================================================== claims
InGetId == script = "get_id"
InEnsure == script \in {"_session_util", "import"}

\* The challenge response carries everything the handshake needs
ChallengeComplete(r) ==
    /\ r.kind = "object"
    /\ Truthy(Get(r.result))
    /\ r.params = "dict"
    /\ Truthy(Get(r.realm)) /\ Truthy(Get(r.random)) /\ Truthy(Get(r.session))

Step1Failed == InGetId /\ resp1 # NoResponse /\ ~ChallengeComplete(resp1)

\* C1: whenever step 1 of login_and_get_session fails (network error,
\* non-JSON body, falsy result, no params, or a missing or empty realm,
\* random or session id), only the challenge request has been sent, no
\* step-2 response is ever received, and the session file is not written.
C1_Step1FailureStops ==
    Step1Failed =>
        /\ Len(sent) = 1 /\ sent[1].id = ID_STEP1
        /\ resp2 = NoResponse
        /\ pc \in {"login_returned", "exit"}
        /\ ret \in {None, NoRet}
        /\ sessFile = sessFile0 /\ lastSave = NoSave

\* C1 witness: a challenge without realm over a stored session ended the
\* handshake with None.
C1_Witness ==
    /\ Step1Failed
    /\ resp1.kind = "object" /\ Truthy(Get(resp1.result)) /\ resp1.params = "dict"
    /\ resp1.realm = Absent /\ Truthy(Get(resp1.random)) /\ Truthy(Get(resp1.session))
    /\ pc = "login_returned" /\ ret = None
    /\ sessFile0.exists

Step2Falsy == InGetId /\ resp2.kind = "object" /\ ~Truthy(Get(resp2.result))

\* C2: when the step-2 response has a falsy result the handshake returns
\* None, no write of the session file is attempted, and the session file is
\* the one found at the start, byte for byte.
C2_FalsyResultLeavesSession ==
    Step2Falsy =>
        /\ ret = None
        /\ pc \in {"login_returned", "exit"}
        /\ (pc = "exit" => exitCode = 2)
        /\ sessFile = sessFile0 /\ lastSave = NoSave
        /\ "write_session" \notin warnings

\* C2 witness: result false beside a session id, over a stored session.
C2_Witness ==
    /\ Step2Falsy
    /\ resp2.result = PyFalse /\ Truthy(Get(resp2.session))
    /\ sessFile0 = File(<<"b", "\n">>)
    /\ pc = "exit"

Step2Truthy == InGetId /\ resp2.kind = "object" /\ Truthy(Get(resp2.result))

\* C3: whenever the step-2 response has a truthy result, the handshake ends
\* by returning a session id (never None, never by an exception), and when
\* the write succeeded the session file holds exactly the returned id and a
\* line feed.
C3_TruthyResultAuthenticates ==
    Step2Truthy =>
        /\ pc \in {"login_returned", "exit"}
        /\ raised = ""
        /\ ret \notin {None, NoRet}
        /\ (pc = "exit" => exitCode = 0)
        /\ (lastSave.wrote => sessFile = File(ret.s \o <<"\n">>))

\* C4: every value returned as a session token by login_and_get_session (on
\* a truthy step-2 result) or by ensure_session is a non-empty string, and
\* every session file either of them has written holds a non-empty token.
C4_TokenNonEmpty ==
    /\ (Step2Truthy /\ raised = "") => (IsStr(ret) /\ ret.s # <<>>)
    /\ (InEnsure /\ ret # NoRet) => (IsStr(ret) /\ ret.s # <<>>)
    /\ (lastSave.wrote /\ lastSave.run = runs) =>
          (sessFile.exists /\ strip(sessFile.data) # <<>>)

LoginPcs == {"login", "wait1", "challenge", "wait2", "login_returned"}
EmptyField(c) ==
    GetStr(c["ip"]) = <<>> \/ GetStr(c["username"]) = <<>> \/ GetStr(c["password"]) = <<>>

\* C6: no request is sent, and login_and_get_session is not entered, unless
\* ip, username and password are all non-empty; credentials with an empty
\* field, from the file or from the prompt, end the script with status 1
\* before any request.
C6_NoLoginWithoutCredentials ==
    InGetId =>
        /\ (pc \in LoginPcs \/ sent # <<>>) =>
              /\ ip # <<>> /\ username # <<>> /\ password # <<>>
              /\ ~EmptyField(creds)
              /\ \A i \in 1..Len(sent) :
                    sent[i].url = ip /\ sent[i].userName = username
        /\ (pc \notin {"get_id_start", "creds_ask", "creds_prompt", "main_check"}
            /\ EmptyField(creds)) =>
              (pc = "exit" /\ exitCode = 1 /\ sent = <<>>)

\* C6 witness: a file with the three keys and an empty password was accepted
\* for reuse and the script stopped with status 1.
C6_Witness ==
    /\ InGetId /\ asked = {"use_file"}
    /\ Complete(creds) /\ creds["password"] = Str(<<>>)
    /\ creds["ip"] # Str(<<>>) /\ creds["username"] # Str(<<>>)
    /\ pc = "exit" /\ exitCode = 1 /\ sent = <<>>

IsDigest(d) == d # <<>> /\ Head(d) = "MD5(" /\ d[Len(d)] = ")"

\* C7: the password field of every request differs from the plaintext
\* password: the first request carries the empty placeholder and the second
\* the digest derived from the challenge.
C7_PasswordNeverSent ==
    InGetId =>
        \A i \in 1..Len(sent) :
            /\ sent[i].password # password
            /\ (i = 1 => sent[i].password = <<>>)
            /\ (i = 2 => /\ IsDigest(sent[i].password)
                         /\ sent[i].password =
                              calculate_dahua_auth_hash(username, password, realm,
                                                        random_key))

\* C7 witness: both requests were sent for a password kept from the file.
C7_Witness ==
    /\ InGetId /\ Len(sent) = 2
    /\ password = <<"b">> /\ username = <<"b">>
    /\ sent[1].password = <<>> /\ IsDigest(sent[2].password)

\* A session id was saved and written by an earlier execution, and this
\* execution has loaded the session file without a read error.
RoundTrip ==
    /\ InEnsure /\ pc # "ensure_start" /\ existing # NoRet
    /\ "read_session" \notin warnings
    /\ lastSave.wrote /\ lastSave.run < runs
    /\ lastSave.arg.s # <<>>

Trimmed(x) == x # <<>> /\ Head(x) \notin Whitespace /\ x[Len(x)] \notin Whitespace

\* C8 as stated: any non-empty token saved is the token loaded afterwards.
C8_RoundTripAnyToken == RoundTrip => existing = lastSave.arg

\* C8 amended: a non-empty token without leading or trailing whitespace is
\* loaded back as saved; any other token comes back trimmed, and a token of
\* whitespace only comes back as no session.
C8_RoundTripTrimmed ==
    RoundTrip =>
        IF Trimmed(lastSave.arg.s) THEN existing = lastSave.arg
        ELSE IF \A i \in 1..Len(lastSave.arg.s) : lastSave.arg.s[i] \in Whitespace
        THEN existing = None
        ELSE /\ IsStr(existing) /\ Trimmed(existing.s)
             /\ existing.s = strip(lastSave.arg.s)

\* C8 witness: a two-character token saved by a login was loaded back by
\* ensure_session.
C8_Witness ==
    /\ RoundTrip /\ Trimmed(lastSave.arg.s) /\ Len(lastSave.arg.s) = 2
    /\ existing = lastSave.arg /\ ret = existing

NoStored(f) == ~f.exists \/ strip(f.data) = <<>>

\* C9: ensure_session(interactive=False) without a stored session (no file,
\* or an empty one) raises the "No session found" RuntimeError; nothing is
\* asked and the session file is neither created nor written.
C9_NonInteractiveFails ==
    (InEnsure /\ ~interactive /\ pc # "ensure_start" /\ NoStored(sessFile0)) =>
        /\ pc = "raised" /\ raised = "RuntimeError: No session found"
        /\ ret = NoRet
        /\ asked = {}
        /\ sessFile = sessFile0 /\ lastSave.run < runs

\* C9 witness: no session file, not interactive: the error, and still no file.
C9_Witness ==
    /\ InEnsure /\ ~interactive /\ pc = "raised"
    /\ sessFile0 = NoFile /\ sessFile = NoFile
    /\ raised = "RuntimeError: No session found"

ReturnedStored ==
    /\ Truthy(existing) /\ ret = existing
    /\ IsStr(ret) /\ ret.s = strip(sessFile0.data)
    /\ asked = {}
    /\ sessFile = sessFile0 /\ lastSave.run < runs

ReturnedManual(loadable) ==
    /\ interactive /\ existing = None
    /\ asked = {"manual", "sid"}
    /\ IsStr(ret) /\ ret.s # <<>>
    /\ lastSave.arg = ret /\ lastSave.run = runs
    /\ loadable => _read_session_from_file(sessFile, "ok").val = ret
    /\ ~lastSave.wrote => "write_session" \in warnings

EnsureFailsClean ==
    raised \in {"RuntimeError: Empty session id", "RuntimeError: No session id provided"}
        => (ret = NoRet /\ sessFile = sessFile0 /\ lastSave.run < runs)

\* C10 as stated: ensure_session returns the stored token with no prompt and
\* no write, or a manually entered non-empty token that a later load yields;
\* an empty entry or a "no" fails and leaves the file unchanged.
C10_EnsureStoredOrManual ==
    InEnsure =>
        /\ (ret # NoRet => (ReturnedStored \/ ReturnedManual(TRUE)))
        /\ EnsureFailsClean

\* C10 amended: as stated, except that the manually entered token is loaded
\* back later only when its write succeeded; a failed write is reported as a
\* warning and the token is still returned.
C10_EnsureStoredOrManualWritten ==
    InEnsure =>
        /\ (ret # NoRet => (ReturnedStored \/ ReturnedManual(lastSave.wrote)))
        /\ EnsureFailsClean

\* C10 witness: over an empty session file the user entered a token, which
\* was written and returned.
C10_Witness ==
    /\ InEnsure /\ pc = "returned" /\ ReturnedManual(TRUE) /\ lastSave.wrote
    /\ sessFile0 = File(<<>>) /\ sessFile # sessFile0

\* C11: loading the session never raises: after the load of ensure_session
\* there is a result, it is no session when the file is absent or empty, and
\* a read error is a warning and no session.
C11_LoadNeverThrows ==
    (InEnsure /\ pc # "ensure_start") =>
        /\ raised # "UnicodeDecodeError"
        /\ existing # NoRet
        /\ (NoStored(sessFile0) => existing = None)
        /\ ("read_session" \in warnings => existing = None)

\* C13: each of the three failures ends the process with its own non-zero
\* status: missing input, failed login, and no session available when
\* _session_util.py is run as a script.
C13_DistinctExitStatus ==
    LET missing == InGetId /\ pc = "exit" /\ raised = "" /\ sent = <<>>
        failed == InGetId /\ pc = "exit" /\ raised = "" /\ sent # <<>> /\ ret = None
        nosession == script = "_session_util" /\ pc = "exit"
                     /\ raised \in {"RuntimeError: No session found",
                                    "RuntimeError: Empty session id",
                                    "RuntimeError: No session id provided"}
    IN /\ missing => exitCode = 1
       /\ failed => exitCode = 2
       /\ nosession => exitCode \notin {0, 1, 2}

\* C16: once a response has been received the handshake is never left by an
\* exception: it ends by returning a session id or None.
C16_NoUnhandledException ==
    (InGetId /\ resp1 # NoResponse) =>
        /\ raised = ""
        /\ (pc \in {"login_returned", "exit"} => ret # NoRet)
        /\ (pc = "exit" => exitCode \in {0, 2})

\* C19: whenever login_and_get_session has returned None the session file
\* is the one found before the invocation.
C19_NoneLeavesSessionFile ==
    (InGetId /\ pc \in {"login_returned", "exit"} /\ ret = None) =>
        sessFile = sessFile0

\* The file has a key=value line for each of ip, username and password
HasAllKeys(f) ==
    /\ f.exists
    /\ \A key \in Keys :
          \E i \in 1..Len(f.data) : f.data[i].kind = "kv" /\ lower(f.data[i].k) = key

TypedOrDefault(c, key, typed) ==
    c[key].s = GetStr(creds_from_file[key]) \/ c[key].s \in typed

\* C12: the credentials of the file are offered for reuse only when the
\* file has all three keys, and are used as read, with the file untouched,
\* only after a yes; otherwise (declined, incomplete, unreadable or no file)
\* ip, username and password are all prompted, each result being what was
\* typed or else the file's value, and the result overwrites the file.
C12_CredentialResolution ==
    [][ InGetId =>
          /\ (pc # "creds_ask" /\ pc' = "creds_ask") =>
                (pc = "get_id_start" /\ HasAllKeys(credFile)
                 /\ creds_from_file' = _parse_kv_file(credFile.data))
          /\ (pc # "main_check" /\ pc' = "main_check") =>
                \/ /\ pc = "creds_ask" /\ HasAllKeys(credFile)
                   /\ asked' = {"use_file"}
                   /\ creds' = _parse_kv_file(credFile.data)
                   /\ credFile' = credFile
                \/ /\ pc = "creds_prompt"
                   /\ {"ip", "username", "password"} \subseteq asked'
                   /\ TypedOrDefault(creds', "ip", {strip(l) : l \in IpLines})
                   /\ TypedOrDefault(creds', "username", {strip(l) : l \in UserLines})
                   /\ TypedOrDefault(creds', "password", PasswordLines)
                   /\ credFile' = File(<< Comment, KV("ip", creds'["ip"].s),
                                          KV("username", creds'["username"].s),
                                          KV("password", creds'["password"].s) >>)
          /\ (pc = "main_check" /\ pc' = "login") =>
                (ip' = creds["ip"].s /\ username' = creds["username"].s
                 /\ password' = creds["password"].s)
          /\ (pc # "creds_prompt" => credFile' = credFile)
      ]_vars

\* C12 witness: the user declined a complete file, typed a new ip and kept
\* the file's username and password; the file was rewritten with the result.
C12_Witness ==
    /\ InGetId /\ pc = "main_check"
    /\ asked = {"use_file", "ip", "username", "password"}
    /\ creds["ip"] = Str(<<"a">>) /\ creds["username"] = Str(<<"b">>)
    /\ creds["password"] = Str(<<"b">>)
    /\ credFile = File(CredentialLines(creds))

\* C14: when the write of the session file fails, the token is still
\* returned (login_and_get_session after a truthy result, ensure_session
\* after a manual entry), no exception leaves the function, and a warning
\* is printed.
C14_WriteFailureNonFatal ==
    (lastSave # NoSave /\ lastSave.run = runs /\ ~lastSave.wrote) =>
        /\ ret = lastSave.arg
        /\ raised = ""
        /\ "write_session" \in warnings
        /\ pc \in {"login_returned", "returned", "exit"}
        /\ (pc = "exit" /\ ret # None => exitCode = 0)

\* C14 witness: the login succeeded, the session file could not be opened
\* for writing and kept its content, and the script ended with status 0.
C14_Witness ==
    /\ InGetId /\ pc = "exit" /\ exitCode = 0
    /\ lastSave.run = runs /\ ~lastSave.wrote
    /\ IsStr(ret) /\ ret.s # <<>> /\ ret = lastSave.arg
    /\ sessFile = sessFile0 /\ sessFile0.exists
    /\ warnings = {"write_session"}

\* UPPER(MD5(u:rn:UPPER(MD5(u:rl:p)))) written out
DoubleMd5(u, p, rl, rn) ==
    <<"MD5(">> \o u \o <<":">> \o rn \o <<":">>
        \o <<"MD5(">> \o u \o <<":">> \o rl \o <<":">> \o p \o <<")">>
    \o <<")">>

\* C15: the digest sent is UPPER(MD5(username:random:h1)) with
\* h1 = UPPER(MD5(username:realm:password)), a function of these four values
\* only.
C15_DigestIsDoubleMd5 ==
    (InGetId /\ Len(sent) = 2) =>
        sent[2].password = DoubleMd5(username, password, realm.s, random_key.s)

\* C15 witness: a digest was sent for a realm and a random that differ.
C15_Witness ==
    /\ InGetId /\ Len(sent) = 2
    /\ realm = Str(<<"a">>) /\ random_key = Str(<<"b">>)
    /\ username = <<"a">> /\ password = <<" ">>

\* C17: the login request carries the digest of the realm and random of the
\* challenge response of this invocation, and its session id.
C17_Step2BoundToChallenge ==
    (InGetId /\ Len(sent) = 2) =>
        /\ ChallengeComplete(resp1)
        /\ sent[2].password =
              DoubleMd5(sent[1].userName, password, resp1.realm.s, resp1.random.s)
        /\ sent[2].session = resp1.session
        /\ sent[2].userName = sent[1].userName /\ sent[2].url = sent[1].url

\* C17 witness: the login request was sent for the challenge (b, a, a).
C17_Witness ==
    /\ InGetId /\ Len(sent) = 2
    /\ resp1.realm = Str(<<"b">>) /\ resp1.random = Str(<<"a">>)
    /\ sent[2].session = Str(<<"a">>)

\* C18: after a truthy step-2 result the session id returned and saved is
\* the top-level one when it is present and non-empty, and params.session
\* only otherwise.
C18_TopLevelFirst ==
    (Step2Truthy /\ raised = "") =>
        LET top == Get(resp2.session)
            nested == IF resp2.params = "dict" THEN Get(resp2.psession) ELSE None
        IN /\ ret = (IF Truthy(top) THEN top ELSE nested)
           /\ lastSave.arg = ret /\ lastSave.run = runs
           /\ (lastSave.wrote => sessFile = File(strip(ret.s) \o <<"\n">>))

\* C18 witness: both places held an id; the top-level one was returned and
\* written.
C18_Witness ==
    /\ Step2Truthy /\ pc = "login_returned"
    /\ resp2.session = Str(<<"a", "a">>) /\ resp2.psession = Str(<<"a">>)
    /\ ret = Str(<<"a", "a">>) /\ sessFile = File(<<"a", "a", "\n">>)

BothSaved == \A p \in Procs : race.at[p] = "done"

\* The load of the importing script has run and met no read error
Loaded == race # NoRace /\ pc # "ensure_start" /\ "read_session" \notin warnings

OldSession == _read_session_from_file(sessFile0, "ok").val

\* What is in the file when w wrote last after o had written
Mixture(w, o) == WriteAt0(RaceLine(o), RaceLine(w))

\* C20 as stated: once both processes have saved, the file holds exactly
\* the last writer's line, and a concurrent load observes only the old
\* session id or one of the two new ones.
C20_RaceOneTokenInFull ==
    /\ BothSaved => sessFile = File(RaceLine(race.last))
    /\ Loaded => existing \in {OldSession} \cup {Str(race.session_id[p]) : p \in Procs}

\* C20 amended: once both processes have saved, the file is never empty
\* and begins with the whole line of the last writer; it is exactly that
\* line unless the other process wrote a longer line between the last
\* writer's open and its write, in which case the tail of the longer line
\* follows.  A concurrent load observes the old session id, no session (the
\* file between an open and a write), one of the two new ids, or such a
\* mixture.
C20_RaceLastWriterPrefix ==
    LET w == race.last
        o == 3 - w
    IN /\ BothSaved =>
            /\ sessFile.exists /\ sessFile.data # <<>>
            /\ SubSeq(sessFile.data, 1, Len(RaceLine(w))) = RaceLine(w)
            /\ sessFile.data \in {RaceLine(w), Mixture(w, o)}
            /\ (Len(RaceLine(o)) <= Len(RaceLine(w)) => sessFile.data = RaceLine(w))
       /\ Loaded =>
            existing \in {OldSession, None}
                         \cup {Str(race.session_id[p]) : p \in Procs}
                         \cup {Str(strip(Mixture(p, 3 - p))) : p \in Procs}

\* C20 witness: the process with the short id wrote last over the long line
\* of the other, and the load then returned the mixture.
C20_Witness ==
    /\ BothSaved /\ race.last = 2
    /\ race.session_id = << <<"a", "a", "a">>, <<"c">> >>
    /\ sessFile = File(<<"c", "\n", "a", "\n">>)
    /\ pc = "returned" /\ ret = Str(<<"c", "\n", "a">>)
====
